---- MODULE Spec2Model ----
(***************************************************************************)
(* Model of voltron.py: the gdb command (VoltronCommand), the dispatch     *)
(* thread (ServerThread), the listening socket (Server), the per-client    *)
(* socket (ClientHandler), the global `clients` list and the global event  *)
(* `queue`.                                                                *)
(*                                                                         *)
(* Two kinds of thread run: gdb's main thread, which executes the voltron  *)
(* command (start/stop) and the stop_handler callback, and the             *)
(* ServerThread objects created by start().  Every ServerThread step is    *)
(* one statement of ServerThread.run (the `if` of line 297 with its send   *)
(* is one step); the handlers asyncore calls from asyncore.loop(count=1)   *)
(* are steps of the thread that called it, one step per handler call.      *)
(*                                                                         *)
(* Time is not modelled: join(10) may time out whenever the thread is      *)
(* still alive, and a call of asyncore.loop may run any number of handlers *)
(* before it returns.  A recv returns one whole pickled message, bytes     *)
(* that do not decode, or blanks, as handle_read assumes.  log calls are   *)
(* left out (they change no state of the program); what the commands      *)
(* print is kept in `out`.                                                 *)
(*                                                                         *)
(* The viewer process (`voltron.py view ...`: a VoltronView with its       *)
(* Client socket) is a program of its own; it is modelled by the v...      *)
(* variables and the view_... actions, and runs under SpecView against a   *)
(* server end that may send any frame and may close.                       *)
(***************************************************************************)
EXTENDS Integers, Sequences, FiniteSets, TLC

\* Bounds of the model: the ServerThreads created, the connections made, the
\* sockets created in all (one listening socket per ServerThread, one socket
\* per connection), the events put on the queue, the sockets created and
\* events put taken together, and the messages a viewer process renders.
MaxThreads == 2
MaxConns == 2
MaxSockets == 3
MaxEvents == 4
MaxLoad == 5
MaxRendered == 3

Threads == 1..MaxThreads
Conns == 1..MaxConns

\* The update types, in the order stop_handler puts them on the queue.
UpdateTypes == <<"register", "disasm", "stack", "bt">>

\* The for_types lists the modelled viewers put in a 'register' message.
ForTypesChoices == {{"register", "stack"}, {"stack"}}

\* Python's None, as a value of msg_type that is not a string.
None == "None"

\* 'Invalid message type: ' + v is defined for a string v; for any other
\* value the concatenation raises TypeError.
concat_ok(v) == v # None

\* The messages a peer may pickle and send: a subscription, a message of
\* another msg_type, or a message whose msg_type is not a string.
Messages ==
    {[msg_type |-> "register", for_types |-> S] : S \in ForTypesChoices}
        \cup {[msg_type |-> "update"], [msg_type |-> None]}

\* pickle.dumps(msg): the bytes of one pickled message.
dumps(msg) == [bytes |-> "pickle", obj |-> msg]

\* The chunks one recv(READ_MAX) may return from an open connection: one
\* pickled message, bytes that are no pickle, or whitespace only.
Chunks ==
    {dumps(m) : m \in Messages} \cup {[bytes |-> "corrupt"], [bytes |-> "blank"]}

\* pickle.loads(data) succeeds exactly on the bytes of a pickle.
loads_ok(data) == data.bytes = "pickle"
loads(data) == data.obj

NoEvent == [msg_type |-> "none", update_type |-> "none", data |-> 0]

VARIABLES
    running,        \* VoltronCommand.running
    thread,         \* VoltronCommand.thread (0: attribute not set)
    nthreads,       \* number of ServerThread objects created so far
    connected,      \* stop_handler is connected to gdb.events.stop
    mpc,            \* position of gdb's main thread
    out,            \* what the last command printed first, or the exception it raised
    queue,          \* the global Queue.Queue
    nput,           \* number of events put so far
    puts,           \* history: the update_type of every event put, in order
    nstart,         \* history: value of nput at the last start() that created a thread
    tpc,            \* position of each ServerThread in run()
    lock,           \* the ServerThreads whose self.lock exists
    should_exit,    \* ServerThread._should_exit
    event,          \* the local `event` of run()
    idx,            \* position of `for client in clients`
    sockfile,       \* the listening socket the path SOCK names (0: no file)
    serv,           \* state of each thread's Server socket
    conn,           \* state of each peer connection
    lsn,            \* the listening socket a not yet accepted connection waits on
    clients,        \* the global `clients` list
    registration,   \* ClientHandler.registration, for the handlers that have one
    sent,           \* the events each connection's socket took in full
    lastSub,        \* history: for_types of the last 'register' message read, per connection
    vpc,            \* viewer process: position of main() around view.run()
    vsock,          \* viewer process: state of the Client socket
    vpeer,          \* viewer process: state of the server's end of the connection
    vsent,          \* viewer process: the messages the Client has sent
    rendered        \* viewer process: the messages passed to view.render

vars == <<running, thread, nthreads, connected, mpc, out, queue, nput, puts, nstart,
          tpc, lock, should_exit, event, idx, sockfile, serv, conn, lsn,
          clients, registration, sent, lastSub,
          vpc, vsock, vpeer, vsent, rendered>>

ctlVars == <<running, thread, nthreads, connected, mpc, out, nstart>>
prodVars == <<queue, nput, puts>>
thrVars == <<tpc, lock, should_exit, event, idx>>
sockVars == <<sockfile, serv, conn, lsn, clients, registration, sent, lastSub>>
viewVars == <<vpc, vsock, vpeer, vsent, rendered>>

Init ==
    /\ running = FALSE
    /\ thread = 0
    /\ nthreads = 0
    /\ connected = FALSE
    /\ mpc = "idle"
    /\ out = ""
    /\ queue = <<>>
    /\ nput = 0
    /\ puts = <<>>
    /\ nstart = 0
    /\ tpc = [t \in Threads |-> "new"]
    /\ lock = {}
    /\ should_exit = [t \in Threads |-> "unset"]
    /\ event = [t \in Threads |-> NoEvent]
    /\ idx = [t \in Threads |-> 0]
    /\ sockfile = 0
    /\ serv = [t \in Threads |-> "none"]
    /\ conn = [c \in Conns |-> "free"]
    /\ lsn = [c \in Conns |-> 0]
    /\ clients = <<>>
    /\ registration = <<>>
    /\ sent = [c \in Conns |-> <<>>]
    /\ lastSub = <<>>
    /\ vpc = "init"
    /\ vsock = "none"
    /\ vpeer = "none"
    /\ vsent = <<>>
    /\ rendered = <<>>

\* The sockets created so far.
Sockets == nthreads + Cardinality({c \in Conns : conn[c] # "free"})

\* threading.Thread.isAlive(): from start() until run() returns or raises.
isAlive(t) == tpc[t] \notin {"new", "done", "raised"}

\* f with key k set to v (an attribute assignment on one object).
SetAttr(f, k, v) == [x \in DOMAIN f \cup {k} |-> IF x = k THEN v ELSE f[x]]

(***************************************************************************)
(* VoltronCommand: start() and stop(), run by gdb's main thread.           *)
(***************************************************************************)

\* ServerThread.set_should_exit(should_exit), called on thread t: it needs
\* self.lock, which run() creates.
set_should_exit(t, v) == [should_exit EXCEPT ![t] = v]

\* A start() without the `if not self.running` guard.
start_unguarded ==
    /\ mpc = "idle"
    /\ nthreads < MaxThreads
    /\ Sockets < MaxSockets
    /\ Sockets + nput < MaxLoad
    /\ out' = "Starting voltron"
    /\ running' = TRUE
    /\ connected' = TRUE
    /\ nthreads' = nthreads + 1
    /\ thread' = nthreads + 1
    /\ tpc' = [tpc EXCEPT ![nthreads + 1] = "run"]
    /\ nstart' = nput
    /\ UNCHANGED <<mpc, lock, should_exit, event, idx>>
    /\ UNCHANGED <<prodVars, sockVars>>
    /\ UNCHANGED viewVars

\* VoltronCommand.start()
start ==
    /\ mpc = "idle"
    /\ IF ~running
         THEN /\ nthreads < MaxThreads
              /\ Sockets < MaxSockets
              /\ Sockets + nput < MaxLoad
              /\ out' = "Starting voltron"
              /\ running' = TRUE
              /\ connected' = TRUE
              /\ nthreads' = nthreads + 1
              /\ thread' = nthreads + 1
              /\ tpc' = [tpc EXCEPT ![nthreads + 1] = "run"]
              /\ nstart' = nput
         ELSE /\ out' = "Already running"
              /\ UNCHANGED <<running, connected, nthreads, thread, tpc, nstart>>
    /\ UNCHANGED <<mpc, lock, should_exit, event, idx>>
    /\ UNCHANGED <<prodVars, sockVars>>
    /\ UNCHANGED viewVars

\* VoltronCommand.stop() up to self.thread.join(10).  When self.thread has
\* not yet executed `self.lock = threading.Lock()`, set_should_exit raises
\* AttributeError out of stop().
stop ==
    /\ mpc = "idle"
    /\ IF running
         THEN /\ connected' = FALSE
              /\ IF thread \in lock
                   THEN /\ out' = "Stopping voltron"
                        /\ should_exit' = set_should_exit(thread, "True")
                        /\ mpc' = "join"
                   ELSE /\ out' = "AttributeError: lock"
                        /\ UNCHANGED <<should_exit, mpc>>
         ELSE /\ out' = "Not running"
              /\ UNCHANGED <<connected, should_exit, mpc>>
    /\ UNCHANGED <<running, thread, nthreads, nstart, tpc, lock, event, idx>>
    /\ UNCHANGED <<prodVars, sockVars>>
    /\ UNCHANGED viewVars

\* self.thread.join(10) returns because the thread ended or because the ten
\* seconds passed; then isAlive() and self.running = False.
join ==
    /\ mpc = "join"
    /\ out' = IF isAlive(thread) THEN "Failed to stop voltron :<" ELSE out
    /\ running' = FALSE
    /\ mpc' = "idle"
    /\ UNCHANGED <<thread, nthreads, connected, nstart>>
    /\ UNCHANGED <<prodVars, thrVars, sockVars>>
    /\ UNCHANGED viewVars

\* The number of clients status() prints: len(clients).
status_count == Len(clients)

\* VoltronCommand.status().  It reads client.registration of every client: a
\* client without that attribute raises AttributeError out of status().
status ==
    /\ mpc = "idle"
    /\ out' = IF ~running THEN "Not running"
              ELSE IF \A i \in DOMAIN clients : clients[i] \in DOMAIN registration
                     THEN "There are {} clients attached"
                     ELSE "AttributeError: registration"
    /\ UNCHANGED <<running, thread, nthreads, connected, mpc, nstart>>
    /\ UNCHANGED <<prodVars, thrVars, sockVars>>
    /\ UNCHANGED viewVars

(***************************************************************************)
(* VoltronCommand.stop_handler: gdb calls it on its main thread at every   *)
(* stop of the debuggee while it is connected.                             *)
(***************************************************************************)

\* queue.put(event) of the update with the given update_type; the payload is
\* abstracted to the serial number of the event.
put(update_type) ==
    /\ nput < MaxEvents
    /\ Sockets + nput < MaxLoad
    /\ puts' = Append(puts, update_type)
    /\ queue' = Append(queue, [msg_type |-> "update", update_type |-> update_type,
                               data |-> nput + 1])
    /\ nput' = nput + 1

\* A stop_handler that puts the stack update before the disasm update.
after_swapped(update_type) ==
    CASE update_type = "register" -> "stack"
      [] update_type = "stack" -> "disasm"
      [] update_type = "disasm" -> "bt"
      [] update_type = "bt" -> "idle"

\* The update type stop_handler puts after the given one ("idle": it returns).
after(update_type) ==
    CASE update_type = "register" -> "disasm"
      [] update_type = "disasm" -> "stack"
      [] update_type = "stack" -> "bt"
      [] update_type = "bt" -> "idle"

\* stop_handler is entered and puts the register update.
stop_handler ==
    /\ mpc = "idle"
    /\ connected
    /\ put(UpdateTypes[1])
    /\ mpc' = after(UpdateTypes[1])
    /\ UNCHANGED <<running, thread, nthreads, connected, out, nstart>>
    /\ UNCHANGED <<thrVars, sockVars>>
    /\ UNCHANGED viewVars

\* stop_handler puts its next update (disasm, stack, bt).
stop_handler_put ==
    /\ mpc \in {"disasm", "stack", "bt"}
    /\ put(mpc)
    /\ mpc' = after(mpc)
    /\ UNCHANGED <<running, thread, nthreads, connected, out, nstart>>
    /\ UNCHANGED <<thrVars, sockVars>>
    /\ UNCHANGED viewVars

\* get_disasm, get_stack or get_backtrace raises gdb.error: stop_handler ends
\* with the updates put so far.
stop_handler_raise ==
    /\ mpc \in {"disasm", "stack", "bt"}
    /\ mpc' = "idle"
    /\ UNCHANGED <<running, thread, nthreads, connected, out, nstart>>
    /\ UNCHANGED <<prodVars, thrVars, sockVars>>
    /\ UNCHANGED viewVars


(***************************************************************************)
(* Peers: viewer processes connecting to SOCK and closing.                 *)
(***************************************************************************)

\* A peer's connect(SOCK) succeeds when the path names a socket that is still
\* listening; the connection waits on that socket until it is accepted.
\* Connections are numbered in the order they are made.
peer_connect ==
    /\ sockfile # 0
    /\ serv[sockfile] = "listening"
    /\ Sockets < MaxSockets
    /\ Sockets + nput < MaxLoad
    /\ \E c \in Conns :
          /\ conn[c] = "free"
          /\ \A d \in Conns : d < c => conn[d] # "free"
          /\ conn' = [conn EXCEPT ![c] = "backlog"]
          /\ lsn' = [lsn EXCEPT ![c] = sockfile]
    /\ UNCHANGED <<sockfile, serv, clients, registration, sent, lastSub>>
    /\ UNCHANGED <<ctlVars, prodVars, thrVars>>
    /\ UNCHANGED viewVars

\* The peer of an accepted connection closes its end.
peer_close(c) ==
    /\ conn[c] = "open"
    /\ conn' = [conn EXCEPT ![c] = "eof"]
    /\ UNCHANGED <<sockfile, serv, lsn, clients, registration, sent, lastSub>>
    /\ UNCHANGED <<ctlVars, prodVars, thrVars>>
    /\ UNCHANGED viewVars

(***************************************************************************)
(* Server and ClientHandler.                                               *)
(***************************************************************************)

\* os.remove(SOCK): the path names no socket any more.
os_remove(path) == 0

\* bind(sockfile) of thread t's socket: the path must not exist
\* (EADDRINUSE otherwise); afterwards it names t's socket.
bind_ok(path) == path = 0
bind(path, t) == t

\* The connections waiting on listening socket l.
Backlog(l) == {c \in Conns : conn[c] = "backlog" /\ lsn[c] = l}

\* dispatcher.handle_close() -> close(): the socket is closed and leaves
\* asyncore's socket_map; `clients` is not touched.
handle_close(c) == [conn EXCEPT ![c] = "closed"]

\* A handle_register that adds the new types to the ones registered before.
handle_register_merge(old, msg) ==
    [msg EXCEPT !.for_types = @ \cup old.for_types]

\* ClientHandler.handle_register(msg): the new value of self.registration.
handle_register(old, msg) == msg

\* A test that leaves out the membership in for_types.
matches_any(ev, reg) == ev.msg_type = "update"

\* The test of ServerThread.run on an event and a client's registration.
matches(ev, reg) ==
    ev.msg_type = "update" /\ ev.update_type \in reg.for_types

\* What the non-blocking socket.send takes of the pickled event on an open
\* connection: all of it, or less ("short": a part, or nothing on
\* EWOULDBLOCK).  send_event drops the count send returns, so the rest of a
\* short send is never written.
SendResults == {"all", "short"}

(***************************************************************************)
(* ServerThread.run                                                        *)
(***************************************************************************)

\* serv = Server(SOCK): remove the path, create the socket, bind, listen.
\* A failing bind raises out of run().
run_server(t) ==
    /\ tpc[t] = "run"
    /\ IF bind_ok(os_remove(sockfile))
         THEN /\ sockfile' = bind(os_remove(sockfile), t)
              /\ serv' = [serv EXCEPT ![t] = "listening"]
              /\ tpc' = [tpc EXCEPT ![t] = "lock"]
         ELSE /\ sockfile' = os_remove(sockfile)
              /\ tpc' = [tpc EXCEPT ![t] = "raised"]
              /\ UNCHANGED serv
    /\ UNCHANGED <<lock, should_exit, event, idx>>
    /\ UNCHANGED <<conn, lsn, clients, registration, sent, lastSub>>
    /\ UNCHANGED <<ctlVars, prodVars>>
    /\ UNCHANGED viewVars

\* self.lock = threading.Lock()
run_lock(t) ==
    /\ tpc[t] = "lock"
    /\ lock' = lock \cup {t}
    /\ tpc' = [tpc EXCEPT ![t] = "flag"]
    /\ UNCHANGED <<should_exit, event, idx>>
    /\ UNCHANGED <<ctlVars, prodVars, sockVars>>
    /\ UNCHANGED viewVars

\* self.set_should_exit(False)
run_flag(t) ==
    /\ tpc[t] = "flag"
    /\ should_exit' = set_should_exit(t, "False")
    /\ tpc' = [tpc EXCEPT ![t] = "while"]
    /\ UNCHANGED <<lock, event, idx>>
    /\ UNCHANGED <<ctlVars, prodVars, sockVars>>
    /\ UNCHANGED viewVars

\* while not self.should_exit():
run_while(t) ==
    /\ tpc[t] = "while"
    /\ tpc' = [tpc EXCEPT ![t] = IF should_exit[t] = "True" THEN "close" ELSE "loop"]
    /\ UNCHANGED <<lock, should_exit, event, idx>>
    /\ UNCHANGED <<ctlVars, prodVars, sockVars>>
    /\ UNCHANGED viewVars

\* asyncore.loop(count=1, timeout=0.1) returns to run(): every socket that
\* select() reported has been handled, or the timeout passed with none
\* readable.  While the thread is in loop, the handlers below run one at a
\* time for the sockets that are readable.
loop_return(t) ==
    /\ tpc[t] = "loop"
    /\ tpc' = [tpc EXCEPT ![t] = "empty"]
    /\ UNCHANGED <<lock, should_exit, event, idx>>
    /\ UNCHANGED <<ctlVars, prodVars, sockVars>>
    /\ UNCHANGED viewVars

\* Server.handle_accept, called for listening socket l by thread t's loop.
\* The socket is readable when a connection waits on it; accept() returns
\* the one that has waited longest.
handle_accept(t, l) ==
    /\ tpc[t] = "loop"
    /\ serv[l] = "listening"
    /\ Backlog(l) # {}
    /\ LET c == CHOOSE c \in Backlog(l) : \A d \in Backlog(l) : c <= d
       IN  /\ conn' = [conn EXCEPT ![c] = "open"]
           /\ lsn' = [lsn EXCEPT ![c] = 0]
           /\ clients' = Append(clients, c)
    /\ UNCHANGED <<sockfile, serv, registration, sent, lastSub>>
    /\ UNCHANGED <<thrVars, ctlVars, prodVars>>
    /\ UNCHANGED viewVars

\* ClientHandler.handle_read on connection c, called by thread t's loop, when
\* recv(READ_MAX) returns data.  At end of file recv calls handle_close and
\* returns ''.  An exception raised out of handle_read (the unbound `msg`
\* after a failed pickle.loads, the TypeError of the log line for a msg_type
\* that is not a string) goes to asyncore's handle_error, which closes the
\* connection.
handle_read(t, c, data) ==
    /\ tpc[t] = "loop"
    /\ conn[c] \in {"open", "eof"}
    /\ CASE conn[c] = "eof" ->
              /\ conn' = handle_close(c)
              /\ UNCHANGED <<registration, lastSub>>
         [] conn[c] = "open" /\ data.bytes = "blank" ->
              UNCHANGED <<conn, registration, lastSub>>
         [] conn[c] = "open" /\ data.bytes # "blank" /\ ~loads_ok(data) ->
              \* log.error('Invalid message data'), then msg is unbound
              /\ conn' = handle_close(c)
              /\ UNCHANGED <<registration, lastSub>>
         [] conn[c] = "open" /\ data.bytes # "blank" /\ loads_ok(data) ->
              IF loads(data).msg_type = "register"
                THEN /\ registration' =
                           SetAttr(registration, c,
                                   handle_register(
                                       IF c \in DOMAIN registration
                                         THEN registration[c] ELSE loads(data),
                                       loads(data)))
                     /\ lastSub' = SetAttr(lastSub, c, loads(data).for_types)
                     /\ UNCHANGED <<conn>>
                ELSE \* log.error('Invalid message type: ' + msg['msg_type'])
                     /\ conn' = IF concat_ok(loads(data).msg_type)
                                  THEN conn ELSE handle_close(c)
                     /\ UNCHANGED <<registration, lastSub>>
    /\ UNCHANGED <<sockfile, serv, lsn, clients, sent>>
    /\ UNCHANGED <<thrVars, ctlVars, prodVars>>
    /\ UNCHANGED viewVars

\* while not queue.empty():
run_empty(t) ==
    /\ tpc[t] = "empty"
    /\ tpc' = [tpc EXCEPT ![t] = IF queue = <<>> THEN "while" ELSE "get"]
    /\ UNCHANGED <<lock, should_exit, event, idx>>
    /\ UNCHANGED <<ctlVars, prodVars, sockVars>>
    /\ UNCHANGED viewVars

\* A get that reads the first event and leaves it on the queue.
run_get_peek(t) ==
    /\ tpc[t] = "get"
    /\ queue # <<>>
    /\ event' = [event EXCEPT ![t] = Head(queue)]
    /\ idx' = [idx EXCEPT ![t] = 1]
    /\ tpc' = [tpc EXCEPT ![t] = "for"]
    /\ UNCHANGED <<lock, should_exit, queue, nput, puts>>
    /\ UNCHANGED <<ctlVars, sockVars>>
    /\ UNCHANGED viewVars

\* event = queue.get(): blocks while the queue is empty.
run_get(t) ==
    /\ tpc[t] = "get"
    /\ queue # <<>>
    /\ event' = [event EXCEPT ![t] = Head(queue)]
    /\ queue' = Tail(queue)
    /\ idx' = [idx EXCEPT ![t] = 1]
    /\ tpc' = [tpc EXCEPT ![t] = "for"]
    /\ UNCHANGED <<lock, should_exit, nput, puts>>
    /\ UNCHANGED <<ctlVars, sockVars>>
    /\ UNCHANGED viewVars

\* ClientHandler.send_event(event) on connection c with the given result of
\* socket.send.  On a connection whose peer is gone, or that is closed, send
\* fails with an error of _DISCONNECTED: asyncore calls handle_close.
send_event(c, ev, res) ==
    IF conn[c] = "open"
      THEN /\ sent' = [sent EXCEPT ![c] = IF res = "all" THEN Append(@, ev) ELSE @]
           /\ UNCHANGED conn
      ELSE /\ conn' = handle_close(c)
           /\ UNCHANGED sent

\* One turn of `for client in clients:` for the event in hand.  A client
\* without the attribute `registration` raises AttributeError out of run().
run_for(t) ==
    /\ tpc[t] = "for"
    /\ IF idx[t] > Len(clients)
         THEN /\ tpc' = [tpc EXCEPT ![t] = "empty"]
              /\ idx' = [idx EXCEPT ![t] = 0]
              /\ event' = [event EXCEPT ![t] = NoEvent]
              /\ UNCHANGED <<conn, sent>>
         ELSE LET client == clients[idx[t]] IN
              IF client \notin DOMAIN registration
                THEN /\ tpc' = [tpc EXCEPT ![t] = "raised"]
                     /\ UNCHANGED <<idx, event, conn, sent>>
                ELSE /\ IF matches(event[t], registration[client])
                          THEN \E res \in SendResults : send_event(client, event[t], res)
                          ELSE UNCHANGED <<conn, sent>>
                     /\ idx' = [idx EXCEPT ![t] = @ + 1]
                     /\ UNCHANGED <<tpc, event>>
    /\ UNCHANGED <<lock, should_exit>>
    /\ UNCHANGED <<sockfile, serv, lsn, clients, registration, lastSub>>
    /\ UNCHANGED <<ctlVars, prodVars>>
    /\ UNCHANGED viewVars

\* serv.close(): the listening socket is closed (connections waiting on it
\* are refused); the path SOCK stays.  run() returns.
run_close(t) ==
    /\ tpc[t] = "close"
    /\ serv' = [serv EXCEPT ![t] = "closed"]
    /\ conn' = [c \in Conns |-> IF c \in Backlog(t) THEN "closed" ELSE conn[c]]
    /\ lsn' = [c \in Conns |-> IF c \in Backlog(t) THEN 0 ELSE lsn[c]]
    /\ tpc' = [tpc EXCEPT ![t] = "done"]
    /\ UNCHANGED <<lock, should_exit, event, idx>>
    /\ UNCHANGED <<sockfile, clients, registration, sent, lastSub>>
    /\ UNCHANGED <<ctlVars, prodVars>>
    /\ UNCHANGED viewVars

Next ==
    \/ start
    \/ stop
    \/ join
    \/ status
    \/ stop_handler
    \/ stop_handler_put
    \/ stop_handler_raise
    \/ peer_connect
    \/ \E c \in Conns : peer_close(c)
    \/ \E t \in Threads : run_server(t)
    \/ \E t \in Threads : run_lock(t)
    \/ \E t \in Threads : run_flag(t)
    \/ \E t \in Threads : run_while(t)
    \/ \E t \in Threads : loop_return(t)
    \/ \E t \in Threads, l \in Threads : handle_accept(t, l)
    \/ \E t \in Threads, c \in Conns, data \in Chunks : handle_read(t, c, data)
    \/ \E t \in Threads : run_empty(t)
    \/ \E t \in Threads : run_get(t)
    \/ \E t \in Threads : run_for(t)
    \/ \E t \in Threads : run_close(t)

Spec == Init /\ [][Next]_vars

\* The steps of ServerThread t itself: the statements of run().
ThreadStep(t) ==
    \/ run_server(t)
    \/ run_lock(t)
    \/ run_flag(t)
    \/ run_while(t)
    \/ loop_return(t)
    \/ run_empty(t)
    \/ run_get(t)
    \/ run_for(t)
    \/ run_close(t)

\* The broker with threads that are scheduled: a started ServerThread
\* (threading.Thread.start()) that can take a step is not left waiting
\* for ever.
FairSpec == Spec /\ \A t \in Threads : WF_vars(ThreadStep(t))

(***************************************************************************)
(* The viewer process: main() builds one view, whose __init__ sets         *)
(* self.types and calls connect(); then view.run() is asyncore.loop().     *)
(***************************************************************************)

\* self.types of RegisterView, DisasmView, StackView and BacktraceView.
ViewTypes == {<<"register">>, <<"disasm">>, <<"stack">>, <<"bt">>}

\* The frames one recv(READ_MAX) of the Client may return while the server's
\* end is open: a pickled update, or bytes that are no pickle.
ViewChunks ==
    {dumps([msg_type |-> "update", update_type |-> UpdateTypes[i]]) :
        i \in DOMAIN UpdateTypes}
      \cup {[bytes |-> "corrupt"]}

\* Client.register(): the message sent.
register(types) == dumps([msg_type |-> "register", for_types |-> types])

\* VoltronView.connect(), called once by the view's __init__: Client(...)
\* connects to SOCK, then client.register().  When no server listens the
\* connect raises, connect() raises it again and main() logs it and returns.
view_connect ==
    /\ vpc = "init"
    /\ \/ \E types \in ViewTypes :
             /\ vsock' = "connected"
             /\ vpeer' = "open"
             /\ vsent' = Append(vsent, register(types))
             /\ vpc' = "run"
       \/ /\ vpc' = "failed"
          /\ UNCHANGED <<vsock, vpeer, vsent>>
    /\ UNCHANGED rendered
    /\ UNCHANGED <<ctlVars, prodVars, thrVars, sockVars>>

\* The server's end of the connection closes.
view_peer_close ==
    /\ vpeer = "open"
    /\ vpeer' = "closed"
    /\ UNCHANGED <<vpc, vsock, vsent, rendered>>
    /\ UNCHANGED <<ctlVars, prodVars, thrVars, sockVars>>

\* Client.handle_read, called by asyncore.loop() when the socket is readable.
\* At end of file recv calls handle_close (asyncore's: it closes the socket)
\* and returns ''.  When pickle.loads raises, `msg` is unbound and
\* self.view.render(msg) raises UnboundLocalError before render is called;
\* asyncore's handle_error then closes the socket.
view_handle_read(data) ==
    /\ vpc = "run"
    /\ vsock = "connected"
    /\ IF vpeer = "open" /\ loads_ok(data)
         THEN /\ Len(rendered) < MaxRendered
              /\ rendered' = Append(rendered, loads(data))
              /\ UNCHANGED vsock
         ELSE /\ vsock' = "closed"
              /\ UNCHANGED rendered
    /\ UNCHANGED <<vpc, vpeer, vsent>>
    /\ UNCHANGED <<ctlVars, prodVars, thrVars, sockVars>>

\* asyncore.loop() returns when its socket map is empty; view.run() returns
\* and main() calls view.cleanup().
view_loop_exit ==
    /\ vpc = "run"
    /\ vsock = "closed"
    /\ vpc' = "exit"
    /\ UNCHANGED <<vsock, vpeer, vsent, rendered>>
    /\ UNCHANGED <<ctlVars, prodVars, thrVars, sockVars>>

NextView ==
    \/ view_connect
    \/ view_peer_close
    \/ \E data \in ViewChunks : view_handle_read(data)
    \/ view_loop_exit

SpecView == Init /\ [][NextView]_vars

(***************************************************************************)
(* Properties                                                              *)
(***************************************************************************)

Last(s) == s[Len(s)]
Range(s) == {s[i] : i \in DOMAIN s}

\* Connection c is open, has a registration, and the registration matches ev.
Wants(c, ev) ==
    /\ conn[c] = "open"
    /\ c \in DOMAIN registration
    /\ matches(ev, registration[c])

\* C1: whenever an update is sent to a connection, the connection has a
\* registration and the update_type of the event is in its current for_types;
\* so a connection that never subscribed is sent nothing.
C1_SentOnlyIfSubscribed ==
    [][\A c \in Conns :
          sent'[c] # sent[c] =>
             /\ c \in DOMAIN registration
             /\ Last(sent'[c]).msg_type = "update"
             /\ Last(sent'[c]).update_type \in registration[c].for_types]_vars

\* C1 witness: a thread has taken a register update past two clients; the one
\* whose for_types has 'register' was sent it, the other one was sent nothing.
C1_Witness ==
    \E t \in Threads, c, d \in Conns :
        /\ tpc[t] = "for"
        /\ idx[t] > Len(clients)
        /\ Len(clients) = 2
        /\ event[t].update_type = "register"
        /\ {c, d} \subseteq DOMAIN registration
        /\ "register" \in registration[c].for_types
        /\ "register" \notin registration[d].for_types
        /\ sent[c] = <<event[t]>>
        /\ sent[d] = <<>>

\* C2: the registration of a connection is the last 'register' message read
\* from it, and every update sent to it has an update_type of that message.
C2_LastSubscribeWins ==
    [][/\ \A c \in DOMAIN lastSub' :
             /\ c \in DOMAIN registration'
             /\ registration'[c].for_types = lastSub'[c]
       /\ \A c \in Conns :
             sent'[c] # sent[c] =>
                /\ c \in DOMAIN lastSub
                /\ Last(sent'[c]).update_type \in lastSub[c]]_vars

\* C2 witness: a connection that was sent a register update under an earlier
\* registration has since registered for {stack}, and a later register update
\* has been taken past it without being sent.
C2_Witness ==
    \E t \in Threads, c \in Conns :
        /\ tpc[t] = "for"
        /\ idx[t] > Len(clients)
        /\ c \in Range(clients)
        /\ event[t].update_type = "register"
        /\ c \in DOMAIN lastSub
        /\ lastSub[c] = {"stack"}
        /\ conn[c] = "open"
        /\ Len(sent[c]) = 1
        /\ sent[c][1].update_type = "register"
        /\ sent[c][1].data < event[t].data

\* C3: the events sent to one connection are in the order they were put.
C3_FifoPerConnection ==
    \A c \in Conns :
        \A i, j \in DOMAIN sent[c] : i < j => sent[c][i].data < sent[c][j].data

\* C4: an event taken from the queue is delivered to every open connection
\* whose registration matches it: the loop over the clients sends it in full
\* to each such client it visits, and does not end before it has visited them.
C4_DeliveredToEveryMatch ==
    [][\A t \in Threads :
          (tpc[t] = "for" /\ idx[t] <= Len(clients)
                /\ <<tpc'[t], idx'[t]>> # <<tpc[t], idx[t]>>) =>
             LET c == clients[idx[t]] IN
             /\ Wants(c, event[t]) => sent'[c] = Append(sent[c], event[t])
             /\ tpc'[t] # "for" =>
                   \A j \in (idx[t] + 1)..Len(clients) : ~Wants(clients[j], event[t])]_vars

\* C5: a ServerThread leaves its loop only after a stop was requested of it;
\* it never ends by an exception.
C5_LoopNeverAborts ==
    \A t \in Threads :
        /\ tpc[t] # "raised"
        /\ tpc[t] \in {"close", "done"} => should_exit[t] = "True"

\* C6: reading a chunk that does not decode leaves the connection open, and
\* its registration and the clients list unchanged.
C6_DecodeFailureKeepsConnection ==
    [][\A t \in Threads, c \in Conns :
          (conn[c] = "open" /\ handle_read(t, c, [bytes |-> "corrupt"])) =>
             /\ conn'[c] = "open"
             /\ registration' = registration
             /\ clients' = clients]_vars

\* C7: while running is set no ServerThread is created or started, and a
\* start() that reports "Already running" changes nothing else; a start()
\* that sets running creates and starts exactly one ServerThread.
C7_StartIdempotent ==
    [][/\ running =>
             /\ nthreads' = nthreads
             /\ \A t \in Threads : tpc[t] = "new" => tpc'[t] = "new"
       /\ (out' = "Already running" /\ out # "Already running") =>
             /\ running /\ running'
             /\ UNCHANGED <<thread, nthreads, connected, tpc, serv, sockfile>>
       /\ (~running /\ running') =>
             /\ out' = "Starting voltron"
             /\ nthreads' = nthreads + 1
             /\ thread' = nthreads'
             /\ tpc[thread'] = "new" /\ tpc'[thread'] = "run"
             /\ \A t \in Threads \ {thread'} : tpc'[t] = tpc[t]]_vars

\* C7 witness: start() was called on a running broker, whose one thread runs.
C7_Witness ==
    /\ out = "Already running"
    /\ running
    /\ nthreads = 1
    /\ tpc[1] = "loop"
    /\ serv[1] = "listening"

\* C8: stop() never ends by an exception: when it has returned on a running
\* broker, the thread has ended or "Failed to stop" was printed.
C8_StopReturnsCleanly ==
    /\ out # "AttributeError: lock"
    /\ (mpc = "idle" /\ out = "Stopping voltron") => ~isAlive(thread)

\* C9: an event is never sent after a start() that followed its put.
C9_QueuedEventsDropped ==
    [][\A c \in Conns :
          sent'[c] # sent[c] => Last(sent'[c]).data > nstart]_vars

\* C10: while a live ServerThread holds a listening socket, no other
\* listening socket comes to exist.
C10_SecondBindFails ==
    \A t, u \in Threads :
        (t # u /\ isAlive(t) /\ serv[t] = "listening") => serv[u] # "listening"

\* C11: status() never fails: on a running broker it prints the number of
\* clients and the for_types of each, also for a client that was accepted
\* and has not yet registered; and it changes nothing.
C11_StatusSafe ==
    out # "AttributeError: registration"

\* C12: the viewer's Client sends exactly one 'register' message, when it
\* connects; a frame that does not decode is not rendered and leaves the
\* socket connected and the viewer in its loop; the loop ends only after the
\* server's end has closed.
C12_ViewerSkipsBadFrame ==
    [][/\ vsent' # vsent =>
             /\ vsock = "none" /\ vsock' = "connected"
             /\ Len(vsent') = 1
             /\ loads(vsent'[1]).msg_type = "register"
       /\ (vsock = "none" /\ vsock' = "connected") => vsent' # vsent
       /\ (vpeer = "open" /\ view_handle_read([bytes |-> "corrupt"])) =>
             /\ rendered' = rendered
             /\ vsock' = "connected"
             /\ vpc' = "run"
       /\ (vpc = "run" /\ vpc' = "exit") => vpeer = "closed"]_vars

\* C13: the events are put in the order register, disasm, stack, bt: every
\* event put is a register update (a stop begins) or the update that follows
\* the one put just before it, so the puts of one stop are a prefix of the
\* four and the puts of two stops do not interleave; the queue holds the
\* events last put, in the order they were put.
C13_FixedOrder ==
    /\ \A i \in DOMAIN puts :
          \/ puts[i] = UpdateTypes[1]
          \/ /\ i > 1
             /\ \E k \in 1..(Len(UpdateTypes) - 1) :
                   puts[i - 1] = UpdateTypes[k] /\ puts[i] = UpdateTypes[k + 1]
    /\ \A j \in DOMAIN queue :
          /\ queue[j].data = nput - Len(queue) + j
          /\ queue[j].update_type = puts[queue[j].data]

\* C13 witness: one stop has put all four updates and returned, and they are
\* all on the queue.
C13_Witness ==
    /\ mpc = "idle"
    /\ puts = UpdateTypes
    /\ Len(queue) = Len(UpdateTypes)

\* C14: when a call of asyncore.loop has returned, the clients list holds no
\* closed connection, and the number of clients status() prints is the number
\* of accepted connections that are not closed.
C14_ClosedConnectionsRemoved ==
    [][\A t \in Threads :
          (tpc[t] = "loop" /\ tpc'[t] = "empty") =>
             /\ \A i \in DOMAIN clients' : conn'[clients'[i]] # "closed"
             /\ status_count' =
                   Cardinality({c \in Conns : conn'[c] \in {"open", "eof"}})]_vars

\* Event number n has been sent in full to connection c.
Delivered(c, n) == \E i \in DOMAIN sent[c] : sent[c][i].data = n

\* C15: an event that a thread is about to send to an open connection
\* registered for it is in the end written to that connection in full,
\* whatever the socket takes of it at the first send, unless the connection
\* closes or no thread is left alive.
C15_ShortSendRetried ==
    \A c \in Conns, n \in 1..MaxEvents :
        (\E t \in Threads :
            /\ tpc[t] = "for"
            /\ idx[t] \in DOMAIN clients
            /\ clients[idx[t]] = c
            /\ event[t].data = n
            /\ Wants(c, event[t]))
        ~> (\/ Delivered(c, n)
            \/ conn[c] # "open"
            \/ \A t \in Threads : ~isAlive(t))

\* C16: once stop() has set should_exit of a thread, the thread in the end
\* leaves run(), however the call of stop() falls among the thread's steps.
C16_StopRequestObserved ==
    \A t \in Threads : (should_exit[t] = "True") ~> ~isAlive(t)

\* C17: when a ServerThread has left run() and no thread is alive, the
\* listening socket is closed, no accepted connection is still open, and the
\* clients list is empty.
C17_ShutdownClosesConnections ==
    \A t \in Threads :
        (tpc[t] = "done" /\ \A u \in Threads : ~isAlive(u)) =>
            /\ serv[t] = "closed"
            /\ \A c \in Conns : conn[c] \notin {"open", "eof"}
            /\ clients = <<>>

\* C18: a thread that found the queue not empty finds an event to take: it
\* never stands at queue.get() with the queue empty.
C18_DrainNeverBlocks ==
    \A t \in Threads : tpc[t] = "get" => queue # <<>>

\* C19: reading a message that decodes and whose msg_type is not 'register'
\* leaves the connection open, and the registrations, the clients list and
\* the queue unchanged.
C19_OtherMessageIgnored ==
    [][\A t \in Threads, c \in Conns, m \in Messages :
          (/\ conn[c] = "open"
           /\ m.msg_type # "register"
           /\ handle_read(t, c, dumps(m))) =>
             /\ conn'[c] = "open"
             /\ registration' = registration
             /\ clients' = clients
             /\ queue' = queue]_vars

\* C20: at most one ServerThread is alive at any time, and while running is
\* False and no stop() is in progress none is alive.
C20_OneThreadAlive ==
    /\ Cardinality({t \in Threads : isAlive(t)}) <= 1
    /\ (~running /\ mpc # "join") => \A t \in Threads : ~isAlive(t)

\* The serial numbers of the events on the queue, and of the events the
\* threads hold.
Queued(q) == {q[j].data : j \in DOMAIN q}
Held(ev) == {ev[t].data : t \in {u \in Threads : ev[u] # NoEvent}}

\* C21: nothing is delivered twice.  The queue changes only by the put of a
\* new event or by one thread taking its first event; an event a thread
\* holds is held by no other thread and is not on the queue, and an event
\* that was sent is not on the queue again; no connection is sent the same
\* event twice, and the clients list names no connection twice.
C21_NoDuplicateDelivery ==
    [][/\ queue' # queue =>
             \/ /\ nput' = nput + 1
                /\ queue' = Append(queue, Last(queue'))
                /\ Last(queue').data = nput'
             \/ /\ queue # <<>>
                /\ queue' = Tail(queue)
                /\ nput' = nput
                /\ Cardinality({t \in Threads :
                                  event'[t] = Head(queue) /\ event[t] = NoEvent}) = 1
       /\ Cardinality(Queued(queue')) = Len(queue')
       /\ Queued(queue') \cap Held(event') = {}
       /\ \A t, u \in Threads :
             (t # u /\ event'[t] # NoEvent) => event'[t] # event'[u]
       /\ \A c \in Conns :
             /\ \A i, j \in DOMAIN sent'[c] :
                   i # j => sent'[c][i].data # sent'[c][j].data
             /\ \A i \in DOMAIN sent'[c] : sent'[c][i].data \notin Queued(queue')
       /\ \A i, j \in DOMAIN clients' : i # j => clients'[i] # clients'[j]]_vars

\* C21 witness: two threads have taken one event each and sent them to the
\* same connection in the other order; each event was sent once, and the
\* queue is empty.
C21_Witness ==
    \E c \in Conns :
        /\ Len(sent[c]) = 2
        /\ sent[c][1].data > sent[c][2].data
        /\ nput = 2
        /\ queue = <<>>
        /\ Cardinality({t \in Threads : isAlive(t)}) = 2

====
